---- MODULE Spec2Model ----
(***************************************************************************)
(* Model of the sct-agent job executor (internal/executor), its in-memory  *)
(* job store (internal/storage) and the callers that drive them.           *)
(*                                                                         *)
(* The store keeps POINTERS to job records (sync.Map of *Job): the record  *)
(* a supervisor mutates, the record CancelJob mutates and the record a     *)
(* reader gets from Get are one heap object.  The model therefore has one  *)
(* record per job id (variable job) and the set of ids the map holds       *)
(* (variable jobs).  The unsynchronised accesses of that record by the     *)
(* supervisor goroutine, by CancelJob and by Shutdown's count are modelled  *)
(* by making every such access a step of its own.                          *)
(***************************************************************************)
EXTENDS Integers, Sequences, FiniteSets, TLC

\* ---------------------------------------------------------------- bounds
MaxJobs == 2            \* number of Execute calls explored
MaxConcurrent == 2      \* max_concurrent ranges over 1..MaxConcurrent
MaxClock == 1           \* the wall clock takes the values 0..MaxClock
MaxTokenLen == 3        \* length of the tokens tried after "Bearer "
MaxQuery == 3           \* largest limit and offset passed to Memory.List

JobIds == 1..MaxJobs

\* ------------------------------------------------------- storage.JobStatus
StatusQueued == "queued"
StatusRunning == "running"
StatusCompleted == "completed"
StatusFailed == "failed"
StatusCancelled == "cancelled"

Terminal == {StatusCompleted, StatusFailed, StatusCancelled}

\* error texts the executor writes
ErrTimedOut == "command timed out"
ErrCancelled == "command cancelled"
ErrStart == "failed to start command"
ErrExit == "exit status 1"
ErrKilled == "signal: killed"

\* a Go pointer that may be nil: <<>> is nil, <<v>> points to v
Nil == <<>>
Ptr(v) == <<v>>

VARIABLES
    maxConcurrent,  \* Executor.maxConcurrent, capacity of the semaphore
    semaphore,      \* number of tokens in Executor.semaphore
    cancelFuncs,    \* ids with an entry in Executor.cancelFuncs
    jobs,           \* ids with an entry in Memory.jobs
    job,            \* the Job records (heap), by id
    nextId,         \* number of ids handed out so far
    pc,             \* position of each job's executeJob goroutine
    now,            \* its local now, then its local completedAt
    ctx,            \* state of each job's context: none/active/deadline/canceled
    proc,           \* state of each job's child process
    cancelPc,       \* position of the CancelJob call holding Executor.mutex
    cancelId,       \* its argument
    cancelNow,      \* its local now
    cancelDur,      \* the milliseconds it has computed and not yet stored
    cancelRet,      \* the error it returns
    shutdownPc,     \* position of Executor.Shutdown
    firing,         \* the cancel handles its loop has yet to call
    scan,           \* the Range of the CountByStatus call Shutdown is in
    clock,          \* time.Now()
    hist,           \* history of each job, for stating the claims
    server,         \* main: position of its shutdown sequence, listener state,
                    \* the request accepted whose handler has not been entered
                    \* or is inside Execute
    postResp,       \* status in the response of POST /api/v1/commands, by job
    authRet,        \* the last request through the router and its outcome
    storeRet,       \* the call on the store that has just returned, its result
    request         \* the ExecuteRequest the next Execute is called with

\* the state of the executor and the store
execVars == <<maxConcurrent, semaphore, cancelFuncs, jobs, job, nextId, pc, now, ctx, proc,
              cancelPc, cancelId, cancelNow, cancelDur, cancelRet, shutdownPc, firing, scan,
              clock, hist>>

\* the state of the callers: main, the HTTP handlers, direct users of the store
apiVars == <<server, postResp, authRet, storeRet, request>>

vars == <<execVars, apiVars>>

\* Go's int and int64 are held as five limbs of 15 bits, least significant
\* first, in two's complement: the last limb holds bits 60 to 63
Limb == 32768

\* the k low limbs of the integer n
RECURSIVE Limbs(_, _)
Limbs(n, k) == IF k = 0 THEN <<>> ELSE <<n % Limb>> \o Limbs(n \div Limb, k - 1)

\* the int of value n, an int64 on the platforms the agent is built for
Int64(n) == [Limbs(n, 5) EXCEPT ![5] = @ % 16]

\* v <= 0 for an int: zero, or bit 63 set
NotPositive(v) == v = Int64(0) \/ v[5] >= 8

\* the zero value of storage.Job
ZeroJob ==
    [timeout |-> Int64(0), priority |-> "", status |-> "", createdAt |-> 0, startedAt |-> Nil,
     completedAt |-> Nil, exitCode |-> Nil, error |-> "", durationMs |-> 0]

\* hist[j], what has happened to job j so far:
\*   cancelOK      a CancelJob call for it has returned nil
\*   cancelQueued  one of them ran wholly before its supervisor got a slot
\*   dlRun         its deadline expired while its child was running
\*   ran           its status has been running
\*   deadline      the Duration its context was made with
\*   onTerminal    the CancelJob call now under way for it began when its
\*                 status was completed, failed or cancelled

\* nothing has been called yet
NoCall == [op |-> "none"]

\* what a CancelJob call returns: an error, as its kind ("job not found",
\* "job cannot be cancelled") and the status it names, or nil (""); no call
\* has returned
NoReturn == [err |-> "pending", status |-> ""]

\* the Range of a CountByStatus call: the entries it is bound to visit, those
\* it has visited and the count so far
NoScan == [todo |-> {}, seen |-> {}, count |-> 0]

\* NewExecutor, NewMemory
Init ==
    /\ maxConcurrent \in 1..MaxConcurrent
    /\ semaphore = 0
    /\ cancelFuncs = {}
    /\ jobs = {}
    /\ job = [j \in JobIds |-> ZeroJob]
    /\ nextId = 0
    /\ pc = [j \in JobIds |-> "idle"]
    /\ now = [j \in JobIds |-> 0]
    /\ ctx = [j \in JobIds |-> "none"]
    /\ proc = [j \in JobIds |-> "none"]
    /\ cancelPc = "idle"
    /\ cancelId = 0
    /\ cancelNow = 0
    /\ cancelDur = 0
    /\ cancelRet = NoReturn
    /\ shutdownPc = "idle"
    /\ firing = {}
    /\ scan = NoScan
    /\ clock = 0
    /\ hist = [j \in JobIds |->
                 [cancelOK |-> FALSE, cancelQueued |-> FALSE, dlRun |-> FALSE,
                  ran |-> FALSE, deadline |-> Nil, onTerminal |-> FALSE]]

    \* main up to ListenAndServe: the server accepts, nothing has been requested
    /\ server = [pc |-> "serving", accepting |-> TRUE, inflight |-> "none"]
    /\ postResp = [j \in JobIds |-> ""]
    /\ authRet = NoCall
    /\ storeRet = NoCall
    /\ request = [timeout |-> Int64(0), priority |-> ""]

\* ------------------------------------------------------------ the store
\* Save with a Store that is lost
SaveDropped(id) == jobs' = jobs

\* Memory.Save: the map holds the pointer handed in
Save(id) == jobs' = jobs \cup {id}

\* Memory.CountByStatus on a store nobody writes to meanwhile
CountByStatus(s) == Cardinality({j \in jobs : job[j].status = s})

\* --------------------------------------------------------- the context
\* a CancelFunc that does nothing
FireNothing(c) == c

\* context.CancelFunc: the first cause sticks
Fire(c) == IF c = "active" THEN "canceled" ELSE c

\* ctx.Done() is closed
CtxDone(c) == c \in {"deadline", "canceled"}

\* Executor.mutex is held by CancelJob from its first line to its return and
\* by Shutdown during its loop over the cancel table; the supervisors take and
\* release it within one step
MutexFree == cancelPc \in {"idle", "returned"} /\ shutdownPc # "fire"

\* time passes
Tick ==
    /\ clock < MaxClock
    /\ clock' = clock + 1
    /\ UNCHANGED <<apiVars, maxConcurrent, semaphore, cancelFuncs, jobs, job, nextId, pc,
                   now, ctx, proc, cancelPc, cancelId, cancelNow, cancelDur, cancelRet,
                   shutdownPc, firing, scan, hist>>

\* ---------------------------------------------------------- Execute
DefaultTimeout == Int64(1800)

\* Execute storing the timeout as requested
EffectiveTimeoutRaw(timeout) == timeout

\* timeout := req.Timeout; if timeout == 0 { timeout = 1800 }
EffectiveTimeout(timeout) == IF timeout = Int64(0) THEN DefaultTimeout ELSE timeout

\* priority := req.Priority; if priority == "" { priority = "normal" }
EffectivePriority(priority) == IF priority = "" THEN "normal" ELSE priority

\* The steps of Execute as they act on the executor and the store.  Execute is
\* called: job := &storage.Job{..., CreatedAt: time.Now()}.  The record is the caller's own until it is saved.
ExecuteCall ==
    /\ nextId < MaxJobs
    /\ LET id == nextId + 1 IN
        /\ nextId' = id
        /\ job' = [job EXCEPT ![id] =
                       [ZeroJob EXCEPT !.timeout = EffectiveTimeout(request.timeout),
                                       !.priority = EffectivePriority(request.priority),
                                       !.status = StatusQueued, !.createdAt = clock]]
        /\ pc' = [pc EXCEPT ![id] = "save"]
    /\ UNCHANGED <<maxConcurrent, semaphore, cancelFuncs, jobs, now, ctx, proc, cancelPc,
                   cancelId, cancelNow, cancelDur, cancelRet, shutdownPc, firing, scan, clock,
                   hist>>

\* e.storage.Save(job); go e.executeJob(job); return job, nil
ExecuteSave(j) ==
    /\ pc[j] = "save"
    /\ Save(j)
    /\ pc' = [pc EXCEPT ![j] = "acquire"]
    /\ UNCHANGED <<maxConcurrent, semaphore, cancelFuncs, job, nextId, now, ctx, proc,
                   cancelPc, cancelId, cancelNow, cancelDur, cancelRet, shutdownPc, firing,
                   scan, clock, hist>>

\* one step of an Execute call
Execute ==
    /\ ExecuteCall \/ \E j \in JobIds : ExecuteSave(j)
    /\ UNCHANGED apiVars

\* ---------------------------------------------------------- executeJob
\* Every access of a goroutine to memory that another goroutine accesses
\* without holding a common lock is a step: the clock, the fields Status,
\* StartedAt, CompletedAt and DurationMs of the shared record.  Error and
\* ExitCode are written by the supervisor alone, one assignment a step.

\* CanAcquire with a channel one slot too large
CanAcquireOffByOne == semaphore <= maxConcurrent

\* a send on e.semaphore does not block
CanAcquire == semaphore < maxConcurrent

\* time.Second, 1000000000 = 30517 * 32768 + 18944, in limbs
Second == <<18944, 30517>>

\* limbs i to 5 of t * time.Second, by long multiplication
RECURSIVE MulSecond(_, _, _)
MulSecond(t, i, carry) ==
    IF i > 5 THEN <<>>
    ELSE LET below == IF i = 1 THEN 0 ELSE t[i - 1]
             column == t[i] * Second[1] + below * Second[2] + carry
         IN <<column % Limb>> \o MulSecond(t, i + 1, column \div Limb)

\* time.Duration(t) * time.Second, an int64 of nanoseconds: the product wraps
\* at 64 bits
Duration(t) == [MulSecond(t, 1, 0) EXCEPT ![5] = @ % 16]

\* context.WithTimeout(parent, d): a context made with d <= 0 is past its
\* deadline from the start
WithTimeout(d) == IF NotPositive(d) THEN "deadline" ELSE "active"

\* e.semaphore <- struct{}{}; context.WithTimeout(...,
\* time.Duration(job.Timeout)*time.Second)
Acquire(j) ==
    /\ pc[j] = "acquire"
    /\ CanAcquire
    /\ semaphore' = semaphore + 1
    /\ ctx' = [ctx EXCEPT ![j] = WithTimeout(Duration(job[j].timeout))]
    /\ hist' = [hist EXCEPT ![j].deadline = Ptr(Duration(job[j].timeout))]
    /\ pc' = [pc EXCEPT ![j] = "register"]
    /\ UNCHANGED <<apiVars, maxConcurrent, cancelFuncs, jobs, job, nextId, now, proc,
                   cancelPc, cancelId, cancelNow, cancelDur, cancelRet, shutdownPc, firing,
                   scan, clock>>

\* e.cancelFuncs[job.ID] = cancel, under the mutex
Register(j) ==
    /\ pc[j] = "register"
    /\ MutexFree
    /\ cancelFuncs' = cancelFuncs \cup {j}
    /\ pc' = [pc EXCEPT ![j] = "readNow"]
    /\ UNCHANGED <<apiVars, maxConcurrent, semaphore, jobs, job, nextId, now, ctx, proc,
                   cancelPc, cancelId, cancelNow, cancelDur, cancelRet, shutdownPc, firing,
                   scan, clock, hist>>

\* now := time.Now()
ReadStartTime(j) ==
    /\ pc[j] = "readNow"
    /\ now' = [now EXCEPT ![j] = clock]
    /\ pc' = [pc EXCEPT ![j] = "setStatus"]
    /\ UNCHANGED <<apiVars, maxConcurrent, semaphore, cancelFuncs, jobs, job, nextId, ctx,
                   proc, cancelPc, cancelId, cancelNow, cancelDur, cancelRet, shutdownPc,
                   firing, scan, clock, hist>>

\* WriteRunning leaving the status as it was
WriteRunningSkipped(j) ==
    /\ pc[j] = "setStatus"
    /\ pc' = [pc EXCEPT ![j] = "setStartedAt"]
    /\ UNCHANGED <<apiVars, maxConcurrent, semaphore, cancelFuncs, jobs, job, nextId, now,
                   ctx, proc, cancelPc, cancelId, cancelNow, cancelDur, cancelRet,
                   shutdownPc, firing, scan, clock, hist>>

\* job.Status = storage.StatusRunning
WriteRunning(j) ==
    /\ pc[j] = "setStatus"
    /\ job' = [job EXCEPT ![j].status = StatusRunning]
    /\ hist' = [hist EXCEPT ![j].ran = TRUE]
    /\ pc' = [pc EXCEPT ![j] = "setStartedAt"]
    /\ UNCHANGED <<apiVars, maxConcurrent, semaphore, cancelFuncs, jobs, nextId, now, ctx,
                   proc, cancelPc, cancelId, cancelNow, cancelDur, cancelRet, shutdownPc,
                   firing, scan, clock>>

\* job.StartedAt = &now; e.storage.Save(job)
WriteStartedAt(j) ==
    /\ pc[j] = "setStartedAt"
    /\ job' = [job EXCEPT ![j].startedAt = Ptr(now[j])]
    /\ Save(j)
    /\ now' = [now EXCEPT ![j] = 0]
    /\ pc' = [pc EXCEPT ![j] = "spawn"]
    /\ UNCHANGED <<apiVars, maxConcurrent, semaphore, cancelFuncs, nextId, ctx, proc,
                   cancelPc, cancelId, cancelNow, cancelDur, cancelRet, shutdownPc, firing,
                   scan, clock, hist>>

\* lines 132 to 135
SetRunning(j) == ReadStartTime(j) \/ WriteRunning(j) \/ WriteStartedAt(j)

\* runCommand up to cmd.Start: a pipe or the start fails (Start fails when the
\* context is already done): job.Status = storage.StatusFailed ...
SpawnFailsStatus(j) ==
    /\ pc[j] = "spawn"
    /\ job' = [job EXCEPT ![j].status = StatusFailed]
    /\ pc' = [pc EXCEPT ![j] = "failError"]
    /\ UNCHANGED <<apiVars, maxConcurrent, semaphore, cancelFuncs, jobs, nextId, now, ctx,
                   proc, cancelPc, cancelId, cancelNow, cancelDur, cancelRet, shutdownPc,
                   firing, scan, clock, hist>>

\* ... job.Error = fmt.Sprintf("failed to ...: %v", err) ...
SpawnFailsError(j) ==
    /\ pc[j] = "failError"
    /\ job' = [job EXCEPT ![j].error = ErrStart]
    /\ pc' = [pc EXCEPT ![j] = "failExitCode"]
    /\ UNCHANGED <<apiVars, maxConcurrent, semaphore, cancelFuncs, jobs, nextId, now, ctx,
                   proc, cancelPc, cancelId, cancelNow, cancelDur, cancelRet, shutdownPc,
                   firing, scan, clock, hist>>

\* ... exitCode := -1; job.ExitCode = &exitCode; return
SpawnFailsExitCode(j) ==
    /\ pc[j] = "failExitCode"
    /\ job' = [job EXCEPT ![j].exitCode = Ptr(-1)]
    /\ pc' = [pc EXCEPT ![j] = "readCompleted"]
    /\ UNCHANGED <<apiVars, maxConcurrent, semaphore, cancelFuncs, jobs, nextId, now, ctx,
                   proc, cancelPc, cancelId, cancelNow, cancelDur, cancelRet, shutdownPc,
                   firing, scan, clock, hist>>

SpawnFails(j) == SpawnFailsStatus(j) \/ SpawnFailsError(j) \/ SpawnFailsExitCode(j)

\* ... or the child runs
SpawnStarts(j) ==
    /\ pc[j] = "spawn"
    /\ ~CtxDone(ctx[j])
    /\ proc' = [proc EXCEPT ![j] = "running"]
    /\ pc' = [pc EXCEPT ![j] = "wait"]
    /\ UNCHANGED <<apiVars, maxConcurrent, semaphore, cancelFuncs, jobs, job, nextId, now,
                   ctx, cancelPc, cancelId, cancelNow, cancelDur, cancelRet, shutdownPc,
                   firing, scan, clock, hist>>

\* the child exits by itself, cleanly or not
ProcExit(j) ==
    /\ proc[j] = "running"
    /\ \E how \in {"exit0", "exitN"} : proc' = [proc EXCEPT ![j] = how]
    /\ UNCHANGED <<apiVars, maxConcurrent, semaphore, cancelFuncs, jobs, job, nextId, pc,
                   now, ctx, cancelPc, cancelId, cancelNow, cancelDur, cancelRet, shutdownPc,
                   firing, scan, clock, hist>>

\* exec.CommandContext kills the child once the context is done
ProcKill(j) ==
    /\ proc[j] = "running"
    /\ CtxDone(ctx[j])
    /\ proc' = [proc EXCEPT ![j] = "killed"]
    /\ UNCHANGED <<apiVars, maxConcurrent, semaphore, cancelFuncs, jobs, job, nextId, pc,
                   now, ctx, cancelPc, cancelId, cancelNow, cancelDur, cancelRet, shutdownPc,
                   firing, scan, clock, hist>>

\* the timer of context.WithTimeout fires
DeadlineExpire(j) ==
    /\ ctx[j] = "active"
    /\ ctx' = [ctx EXCEPT ![j] = "deadline"]
    /\ hist' = [hist EXCEPT ![j].dlRun = (proc[j] = "running")]
    /\ UNCHANGED <<apiVars, maxConcurrent, semaphore, cancelFuncs, jobs, job, nextId, pc,
                   now, proc, cancelPc, cancelId, cancelNow, cancelDur, cancelRet,
                   shutdownPc, firing, scan, clock>>

\* runCommand, cmd.Wait and the branch on err
\* wg.Wait(); err = cmd.Wait(); job.Status = failed, or completed when err is nil
WaitStatus(j) ==
    /\ pc[j] = "wait"
    /\ proc[j] \in {"exit0", "exitN", "killed"}
    /\ job' = [job EXCEPT ![j].status =
                   IF proc[j] = "exit0" THEN StatusCompleted ELSE StatusFailed]
    /\ pc' = [pc EXCEPT ![j] = IF proc[j] = "exit0" THEN "waitExitCode" ELSE "waitError"]
    /\ UNCHANGED <<apiVars, maxConcurrent, semaphore, cancelFuncs, jobs, nextId, now, ctx,
                   proc, cancelPc, cancelId, cancelNow, cancelDur, cancelRet, shutdownPc,
                   firing, scan, clock, hist>>

\* job.Error = err.Error(): ErrExit for a nonzero exit, ErrKilled when the
\* child was killed (a Wait that reports the context's error for a killed
\* child is the second case with another text)
WaitError(j) ==
    /\ pc[j] = "waitError"
    /\ job' = [job EXCEPT ![j].error = IF proc[j] = "exitN" THEN ErrExit ELSE ErrKilled]
    /\ pc' = [pc EXCEPT ![j] = "waitExitCode"]
    /\ UNCHANGED <<apiVars, maxConcurrent, semaphore, cancelFuncs, jobs, nextId, now, ctx,
                   proc, cancelPc, cancelId, cancelNow, cancelDur, cancelRet, shutdownPc,
                   firing, scan, clock, hist>>

\* job.ExitCode = &exitCode; ExitCode() of a killed child is -1
WaitExitCode(j) ==
    /\ pc[j] = "waitExitCode"
    /\ job' = [job EXCEPT ![j].exitCode =
                   Ptr(IF proc[j] = "exit0" THEN 0 ELSE IF proc[j] = "exitN" THEN 1 ELSE -1)]
    /\ pc' = [pc EXCEPT ![j] = "cause"]
    /\ UNCHANGED <<apiVars, maxConcurrent, semaphore, cancelFuncs, jobs, nextId, now, ctx,
                   proc, cancelPc, cancelId, cancelNow, cancelDur, cancelRet, shutdownPc,
                   firing, scan, clock, hist>>

\* lines 202 to 224
Wait(j) == WaitStatus(j) \/ WaitError(j) \/ WaitExitCode(j)

\* a test for context.DeadlineExceeded that never holds
IsDeadlineExceededNever(c) == FALSE

\* ctx.Err() == context.DeadlineExceeded
IsDeadlineExceeded(c) == c = "deadline"

\* a test for context.Canceled that never holds
IsCanceledNever(c) == FALSE

\* ctx.Err() == context.Canceled
IsCanceled(c) == c = "canceled"

\* if ctx.Err() == context.DeadlineExceeded { job.Status = storage.StatusFailed
CauseDeadline(j) ==
    /\ pc[j] = "cause"
    /\ IsDeadlineExceeded(ctx[j])
    /\ job' = [job EXCEPT ![j].status = StatusFailed]
    /\ pc' = [pc EXCEPT ![j] = "timedOutError"]
    /\ UNCHANGED <<apiVars, maxConcurrent, semaphore, cancelFuncs, jobs, nextId, now, ctx,
                   proc, cancelPc, cancelId, cancelNow, cancelDur, cancelRet, shutdownPc,
                   firing, scan, clock, hist>>

\* job.Error = "command timed out"
CauseTimedOutError(j) ==
    /\ pc[j] = "timedOutError"
    /\ job' = [job EXCEPT ![j].error = ErrTimedOut]
    /\ pc' = [pc EXCEPT ![j] = "readCompleted"]
    /\ UNCHANGED <<apiVars, maxConcurrent, semaphore, cancelFuncs, jobs, nextId, now, ctx,
                   proc, cancelPc, cancelId, cancelNow, cancelDur, cancelRet, shutdownPc,
                   firing, scan, clock, hist>>

\* the first test fails: ctx.Err() is read again
CauseNotDeadline(j) ==
    /\ pc[j] = "cause"
    /\ ~IsDeadlineExceeded(ctx[j])
    /\ pc' = [pc EXCEPT ![j] = "cause2"]
    /\ UNCHANGED <<apiVars, maxConcurrent, semaphore, cancelFuncs, jobs, job, nextId, now,
                   ctx, proc, cancelPc, cancelId, cancelNow, cancelDur, cancelRet,
                   shutdownPc, firing, scan, clock, hist>>

\* else if ctx.Err() == context.Canceled { job.Status = storage.StatusCancelled
CauseCanceled(j) ==
    /\ pc[j] = "cause2"
    /\ IsCanceled(ctx[j])
    /\ job' = [job EXCEPT ![j].status = StatusCancelled]
    /\ pc' = [pc EXCEPT ![j] = "cancelledError"]
    /\ UNCHANGED <<apiVars, maxConcurrent, semaphore, cancelFuncs, jobs, nextId, now, ctx,
                   proc, cancelPc, cancelId, cancelNow, cancelDur, cancelRet, shutdownPc,
                   firing, scan, clock, hist>>

\* job.Error = "command cancelled"
CauseCancelledError(j) ==
    /\ pc[j] = "cancelledError"
    /\ job' = [job EXCEPT ![j].error = ErrCancelled]
    /\ pc' = [pc EXCEPT ![j] = "readCompleted"]
    /\ UNCHANGED <<apiVars, maxConcurrent, semaphore, cancelFuncs, jobs, nextId, now, ctx,
                   proc, cancelPc, cancelId, cancelNow, cancelDur, cancelRet, shutdownPc,
                   firing, scan, clock, hist>>

\* neither test holds: runCommand returns
CauseNone(j) ==
    /\ pc[j] = "cause2"
    /\ ~IsCanceled(ctx[j])
    /\ pc' = [pc EXCEPT ![j] = "readCompleted"]
    /\ UNCHANGED <<apiVars, maxConcurrent, semaphore, cancelFuncs, jobs, job, nextId, now,
                   ctx, proc, cancelPc, cancelId, cancelNow, cancelDur, cancelRet,
                   shutdownPc, firing, scan, clock, hist>>

\* lines 226 to 238
Cause(j) ==
    \/ CauseDeadline(j)
    \/ CauseTimedOutError(j)
    \/ CauseNotDeadline(j)
    \/ CauseCanceled(j)
    \/ CauseCancelledError(j)
    \/ CauseNone(j)

\* completedAt := time.Now()
ReadCompletedTime(j) ==
    /\ pc[j] = "readCompleted"
    /\ now' = [now EXCEPT ![j] = clock]
    /\ pc' = [pc EXCEPT ![j] = "setCompletedAt"]
    /\ UNCHANGED <<apiVars, maxConcurrent, semaphore, cancelFuncs, jobs, job, nextId, ctx,
                   proc, cancelPc, cancelId, cancelNow, cancelDur, cancelRet, shutdownPc,
                   firing, scan, clock, hist>>

\* job.CompletedAt = &completedAt
WriteCompletedAt(j) ==
    /\ pc[j] = "setCompletedAt"
    /\ job' = [job EXCEPT ![j].completedAt = Ptr(now[j])]
    /\ pc' = [pc EXCEPT ![j] = "setDuration"]
    /\ UNCHANGED <<apiVars, maxConcurrent, semaphore, cancelFuncs, jobs, nextId, now, ctx,
                   proc, cancelPc, cancelId, cancelNow, cancelDur, cancelRet, shutdownPc,
                   firing, scan, clock, hist>>

\* job.DurationMs = completedAt.Sub(*job.StartedAt).Milliseconds();
\* e.storage.Save(job)
WriteDuration(j) ==
    /\ pc[j] = "setDuration"
    /\ job' = [job EXCEPT ![j].durationMs = now[j] - job[j].startedAt[1]]
    /\ Save(j)
    /\ now' = [now EXCEPT ![j] = 0]
    /\ pc' = [pc EXCEPT ![j] = "exit"]
    /\ UNCHANGED <<apiVars, maxConcurrent, semaphore, cancelFuncs, nextId, ctx, proc,
                   cancelPc, cancelId, cancelNow, cancelDur, cancelRet, shutdownPc, firing,
                   scan, clock, hist>>

\* lines 139 to 143
Finalize(j) == ReadCompletedTime(j) \/ WriteCompletedAt(j) \/ WriteDuration(j)

\* Deregister leaving the entry in the table
DeregisterKeepsEntry(j) ==
    /\ pc[j] = "exit"
    /\ MutexFree
    /\ pc' = [pc EXCEPT ![j] = "cancel"]
    /\ UNCHANGED <<apiVars, maxConcurrent, semaphore, cancelFuncs, jobs, job, nextId, now,
                   ctx, proc, cancelPc, cancelId, cancelNow, cancelDur, cancelRet,
                   shutdownPc, firing, scan, clock, hist>>

\* the deferred calls run last first.  The third defer:
\* Lock; delete(e.cancelFuncs, job.ID); Unlock
Deregister(j) ==
    /\ pc[j] = "exit"
    /\ MutexFree
    /\ cancelFuncs' = cancelFuncs \ {j}
    /\ pc' = [pc EXCEPT ![j] = "cancel"]
    /\ UNCHANGED <<apiVars, maxConcurrent, semaphore, jobs, job, nextId, now, ctx, proc,
                   cancelPc, cancelId, cancelNow, cancelDur, cancelRet, shutdownPc, firing,
                   scan, clock, hist>>

\* the second defer: cancel()
DeferredCancel(j) ==
    /\ pc[j] = "cancel"
    /\ ctx' = [ctx EXCEPT ![j] = Fire(ctx[j])]
    /\ pc' = [pc EXCEPT ![j] = "release"]
    /\ UNCHANGED <<apiVars, maxConcurrent, semaphore, cancelFuncs, jobs, job, nextId, now,
                   proc, cancelPc, cancelId, cancelNow, cancelDur, cancelRet, shutdownPc,
                   firing, scan, clock, hist>>

\* Release keeping the slot
ReleaseKeepsSlot(j) ==
    /\ pc[j] = "release"
    /\ pc' = [pc EXCEPT ![j] = "done"]
    /\ UNCHANGED <<apiVars, maxConcurrent, semaphore, cancelFuncs, jobs, job, nextId, now,
                   ctx, proc, cancelPc, cancelId, cancelNow, cancelDur, cancelRet,
                   shutdownPc, firing, scan, clock, hist>>

\* the first defer: <-e.semaphore; the goroutine ends
Release(j) ==
    /\ pc[j] = "release"
    /\ semaphore' = semaphore - 1
    /\ pc' = [pc EXCEPT ![j] = "done"]
    /\ UNCHANGED <<apiVars, maxConcurrent, cancelFuncs, jobs, job, nextId, now, ctx, proc,
                   cancelPc, cancelId, cancelNow, cancelDur, cancelRet, shutdownPc, firing,
                   scan, clock, hist>>

\* ---------------------------------------------------------- CancelJob
\* Lock; Get; return fmt.Errorf("job not found"); Unlock: as it acts on the
\* executor
CancelNotFoundCall(id) ==
    /\ cancelPc = "idle"
    /\ MutexFree
    /\ id \notin jobs
    /\ cancelPc' = "returned"
    /\ cancelId' = id
    /\ cancelRet' = [err |-> "job not found", status |-> ""]
    /\ UNCHANGED <<maxConcurrent, semaphore, cancelFuncs, jobs, job, nextId, pc, now, ctx,
                   proc, cancelNow, cancelDur, shutdownPc, firing, scan, clock, hist>>

CancelNotFound(id) == CancelNotFoundCall(id) /\ UNCHANGED apiVars

\* Lock; Get; the job exists: as it acts on the executor
CancelBeginCall(id) ==
    /\ cancelPc = "idle"
    /\ MutexFree
    /\ id \in jobs
    /\ cancelPc' = "test"
    /\ cancelId' = id
    /\ hist' = [hist EXCEPT ![id].onTerminal = job[id].status \in Terminal]
    /\ UNCHANGED <<maxConcurrent, semaphore, cancelFuncs, jobs, job, nextId, pc, now, ctx,
                   proc, cancelNow, cancelDur, cancelRet, shutdownPc, firing, scan, clock>>

CancelBegin(id) == CancelBeginCall(id) /\ UNCHANGED apiVars

\* if job.Status != storage.StatusQueued && ...: the first operand reads the
\* status; when it is queued the second operand is not evaluated
CancelTest ==
    /\ cancelPc = "test"
    /\ cancelPc' = IF job[cancelId].status # StatusQueued THEN "test2" ELSE "fire"
    /\ UNCHANGED <<apiVars, maxConcurrent, semaphore, cancelFuncs, jobs, job, nextId, pc,
                   now, ctx, proc, cancelId, cancelNow, cancelDur, cancelRet, shutdownPc,
                   firing, scan, clock, hist>>

\* ... && job.Status != storage.StatusRunning: the status is read again
CancelTest2 ==
    /\ cancelPc = "test2"
    /\ cancelPc' = IF job[cancelId].status # StatusRunning THEN "error" ELSE "fire"
    /\ UNCHANGED <<apiVars, maxConcurrent, semaphore, cancelFuncs, jobs, job, nextId, pc,
                   now, ctx, proc, cancelId, cancelNow, cancelDur, cancelRet, shutdownPc,
                   firing, scan, clock, hist>>

\* return fmt.Errorf("job cannot be cancelled (status: %s)", job.Status): the
\* status is read a third time; Unlock
CancelInvalidState ==
    /\ cancelPc = "error"
    /\ cancelRet' = [err |-> "job cannot be cancelled", status |-> job[cancelId].status]
    /\ cancelPc' = "returned"
    /\ UNCHANGED <<apiVars, maxConcurrent, semaphore, cancelFuncs, jobs, job, nextId, pc,
                   now, ctx, proc, cancelId, cancelNow, cancelDur, shutdownPc, firing, scan,
                   clock, hist>>

\* if cancelFunc, exists := e.cancelFuncs[id]; exists { cancelFunc(); delete }
CancelFire ==
    /\ cancelPc = "fire"
    /\ IF cancelId \in cancelFuncs
       THEN /\ ctx' = [ctx EXCEPT ![cancelId] = Fire(ctx[cancelId])]
            /\ cancelFuncs' = cancelFuncs \ {cancelId}
       ELSE UNCHANGED <<ctx, cancelFuncs>>
    /\ cancelPc' = "now"
    /\ UNCHANGED <<apiVars, maxConcurrent, semaphore, jobs, job, nextId, pc, now, proc,
                   cancelId, cancelNow, cancelDur, cancelRet, shutdownPc, firing, scan,
                   clock, hist>>

\* now := time.Now()
CancelReadNow ==
    /\ cancelPc = "now"
    /\ cancelNow' = clock
    /\ cancelPc' = "status"
    /\ UNCHANGED <<apiVars, maxConcurrent, semaphore, cancelFuncs, jobs, job, nextId, pc,
                   now, ctx, proc, cancelId, cancelDur, cancelRet, shutdownPc, firing, scan,
                   clock, hist>>

\* CancelWriteStatus with the error text of a cancellation written too
CancelWriteStatusAndError ==
    /\ cancelPc = "status"
    /\ job' = [job EXCEPT ![cancelId].status = StatusCancelled,
                          ![cancelId].error = ErrCancelled]
    /\ cancelPc' = "completedAt"
    /\ UNCHANGED <<apiVars, maxConcurrent, semaphore, cancelFuncs, jobs, nextId, pc, now,
                   ctx, proc, cancelId, cancelNow, cancelDur, cancelRet, shutdownPc, firing,
                   scan, clock, hist>>

\* job.Status = storage.StatusCancelled
CancelWriteStatus ==
    /\ cancelPc = "status"
    /\ job' = [job EXCEPT ![cancelId].status = StatusCancelled]
    /\ cancelPc' = "completedAt"
    /\ UNCHANGED <<apiVars, maxConcurrent, semaphore, cancelFuncs, jobs, nextId, pc, now,
                   ctx, proc, cancelId, cancelNow, cancelDur, cancelRet, shutdownPc, firing,
                   scan, clock, hist>>

\* job.CompletedAt = &now
CancelWriteCompletedAt ==
    /\ cancelPc = "completedAt"
    /\ job' = [job EXCEPT ![cancelId].completedAt = Ptr(cancelNow)]
    /\ cancelPc' = "since"
    /\ UNCHANGED <<apiVars, maxConcurrent, semaphore, cancelFuncs, jobs, nextId, pc, now,
                   ctx, proc, cancelId, cancelNow, cancelDur, cancelRet, shutdownPc, firing,
                   scan, clock, hist>>

\* if job.StartedAt != nil { ... time.Since(*job.StartedAt).Milliseconds(): the
\* pointer and the clock are read, the value is yet to be stored
CancelSince ==
    /\ cancelPc = "since"
    /\ cancelDur' = IF job[cancelId].startedAt = Nil THEN 0
                    ELSE clock - job[cancelId].startedAt[1]
    /\ cancelPc' = IF job[cancelId].startedAt = Nil THEN "save" ELSE "duration"
    /\ UNCHANGED <<apiVars, maxConcurrent, semaphore, cancelFuncs, jobs, job, nextId, pc,
                   now, ctx, proc, cancelId, cancelNow, cancelRet, shutdownPc, firing, scan,
                   clock, hist>>

\* job.DurationMs = ...
CancelWriteDuration ==
    /\ cancelPc = "duration"
    /\ job' = [job EXCEPT ![cancelId].durationMs = cancelDur]
    /\ cancelPc' = "save"
    /\ UNCHANGED <<apiVars, maxConcurrent, semaphore, cancelFuncs, jobs, nextId, pc, now,
                   ctx, proc, cancelId, cancelNow, cancelDur, cancelRet, shutdownPc, firing,
                   scan, clock, hist>>

\* return e.storage.Save(job); Unlock
CancelSave ==
    /\ cancelPc = "save"
    /\ Save(cancelId)
    /\ cancelRet' = [err |-> "", status |-> ""]
    /\ cancelNow' = 0
    /\ cancelDur' = 0
    /\ hist' = [hist EXCEPT ![cancelId].cancelOK = TRUE,
                            ![cancelId].cancelQueued = @ \/ pc[cancelId] = "acquire"]
    /\ cancelPc' = "returned"
    /\ UNCHANGED <<apiVars, maxConcurrent, semaphore, cancelFuncs, job, nextId, pc, now, ctx,
                   proc, cancelId, shutdownPc, firing, scan, clock>>

\* the caller has the result of the call
CancelReturned ==
    /\ cancelPc = "returned"
    /\ cancelId' = 0
    /\ cancelRet' = NoReturn
    /\ hist' = [j \in JobIds |-> [hist[j] EXCEPT !.onTerminal = FALSE]]
    /\ cancelPc' = "idle"
    /\ UNCHANGED <<apiVars, maxConcurrent, semaphore, cancelFuncs, jobs, job, nextId, pc,
                   now, ctx, proc, cancelNow, cancelDur, shutdownPc, firing, scan, clock>>

\* the steps of a call past its first
CancelSteps ==
    \/ CancelTest
    \/ CancelTest2
    \/ CancelInvalidState
    \/ CancelFire
    \/ CancelReadNow
    \/ CancelWriteStatus
    \/ CancelWriteCompletedAt
    \/ CancelSince
    \/ CancelWriteDuration
    \/ CancelSave
    \/ CancelReturned

\* ---------------------------------------------------------- Shutdown
\* Lock; for _, cancel := range e.cancelFuncs { cancel() }; Unlock: the first
\* call of the loop, or none when the table is empty.  The mutex is held until
\* the last handle has been called.
ShutdownFire ==
    /\ shutdownPc = "idle"
    /\ MutexFree
    /\ IF cancelFuncs = {}
       THEN /\ shutdownPc' = "count"
            /\ UNCHANGED <<ctx, firing>>
       ELSE \E j \in cancelFuncs :
              /\ ctx' = [ctx EXCEPT ![j] = Fire(ctx[j])]
              /\ firing' = cancelFuncs \ {j}
              /\ shutdownPc' = IF cancelFuncs = {j} THEN "count" ELSE "fire"
    /\ UNCHANGED <<apiVars, maxConcurrent, semaphore, cancelFuncs, jobs, job, nextId, pc,
                   now, proc, cancelPc, cancelId, cancelNow, cancelDur, cancelRet, scan,
                   clock, hist>>

\* the next call of the loop; Unlock after the last
ShutdownFireNext ==
    /\ shutdownPc = "fire"
    /\ \E j \in firing :
         /\ ctx' = [ctx EXCEPT ![j] = Fire(ctx[j])]
         /\ firing' = firing \ {j}
         /\ shutdownPc' = IF firing = {j} THEN "count" ELSE "fire"
    /\ UNCHANGED <<apiVars, maxConcurrent, semaphore, cancelFuncs, jobs, job, nextId, pc,
                   now, proc, cancelPc, cancelId, cancelNow, cancelDur, cancelRet, scan,
                   clock, hist>>

\* e.storage.CountByStatus(running): count := 0; m.jobs.Range begins.  The
\* entries stored by now are visited; one stored later may be visited or not.
ShutdownRange ==
    /\ shutdownPc = "count"
    /\ scan' = [todo |-> jobs, seen |-> {}, count |-> 0]
    /\ shutdownPc' = "scan"
    /\ UNCHANGED <<apiVars, maxConcurrent, semaphore, cancelFuncs, jobs, job, nextId, pc,
                   now, ctx, proc, cancelPc, cancelId, cancelNow, cancelDur, cancelRet,
                   firing, clock, hist>>

\* the callback of Range, for one entry: if job.Status == status { count++ }
ShutdownScan(j) ==
    /\ shutdownPc = "scan"
    /\ j \in jobs \ scan.seen
    /\ scan' = [scan EXCEPT !.seen = @ \cup {j},
                            !.count = IF job[j].status = StatusRunning THEN @ + 1 ELSE @]
    /\ UNCHANGED <<apiVars, maxConcurrent, semaphore, cancelFuncs, jobs, job, nextId, pc,
                   now, ctx, proc, cancelPc, cancelId, cancelNow, cancelDur, cancelRet,
                   shutdownPc, firing, clock, hist>>

\* Range is over; if ... == 0 { return nil }
ShutdownDrained ==
    /\ shutdownPc = "scan"
    /\ scan.todo \subseteq scan.seen /\ scan.count = 0
    /\ scan' = NoScan
    /\ shutdownPc' = "ok"
    /\ UNCHANGED <<apiVars, maxConcurrent, semaphore, cancelFuncs, jobs, job, nextId, pc,
                   now, ctx, proc, cancelPc, cancelId, cancelNow, cancelDur, cancelRet,
                   firing, clock, hist>>

\* Range is over and has counted a running job: Shutdown blocks in the select
ShutdownPending ==
    /\ shutdownPc = "scan"
    /\ scan.todo \subseteq scan.seen /\ scan.count # 0
    /\ scan' = NoScan
    /\ shutdownPc' = "wait"
    /\ UNCHANGED <<apiVars, maxConcurrent, semaphore, cancelFuncs, jobs, job, nextId, pc,
                   now, ctx, proc, cancelPc, cancelId, cancelNow, cancelDur, cancelRet,
                   firing, clock, hist>>

\* case <-ticker.C: the next poll
ShutdownTick ==
    /\ shutdownPc = "wait"
    /\ shutdownPc' = "count"
    /\ UNCHANGED <<apiVars, maxConcurrent, semaphore, cancelFuncs, jobs, job, nextId, pc,
                   now, ctx, proc, cancelPc, cancelId, cancelNow, cancelDur, cancelRet,
                   firing, scan, clock, hist>>

\* case <-ctx.Done(): return ctx.Err()
ShutdownExpired ==
    /\ shutdownPc = "wait"
    /\ shutdownPc' = "expired"
    /\ UNCHANGED <<apiVars, maxConcurrent, semaphore, cancelFuncs, jobs, job, nextId, pc,
                   now, ctx, proc, cancelPc, cancelId, cancelNow, cancelDur, cancelRet,
                   firing, scan, clock, hist>>

\* ---------------------------------------------------------- the system
\* one step of the executeJob goroutine of job j
Supervisor(j) ==
    \/ Acquire(j)
    \/ Register(j)
    \/ SetRunning(j)
    \/ SpawnFails(j)
    \/ SpawnStarts(j)
    \/ Wait(j)
    \/ Cause(j)
    \/ Finalize(j)
    \/ Deregister(j)
    \/ DeferredCancel(j)
    \/ Release(j)

\* one step of a CancelJob call
CancelJob ==
    \/ \E id \in JobIds : CancelNotFound(id)
    \/ \E id \in JobIds : CancelBegin(id)
    \/ CancelSteps

\* one step of Shutdown's polling: for { CountByStatus; select }
ShutdownPoll ==
    \/ ShutdownRange
    \/ \E j \in JobIds : ShutdownScan(j)
    \/ ShutdownDrained
    \/ ShutdownPending
    \/ ShutdownTick
    \/ ShutdownExpired

\* one step of Shutdown
Shutdown ==
    \/ ShutdownFire
    \/ ShutdownFireNext
    \/ ShutdownPoll

\* every step the executor, its goroutines and its callers can take
Next ==
    \/ Tick
    \/ Execute
    \/ \E j \in JobIds : Supervisor(j)
    \/ \E j \in JobIds : ProcExit(j)
    \/ \E j \in JobIds : ProcKill(j)
    \/ \E j \in JobIds : DeadlineExpire(j)
    \/ CancelJob
    \/ Shutdown

Spec == Init /\ [][Next]_vars

\* an executor with one slot, so that a job can wait for it
OneSlot == Init /\ maxConcurrent = 1

\* The executor never reads a time it has stored except to test
\* job.StartedAt != nil, so NextExec, which leaves the clock at 0, takes the
\* same control paths as Next.  Shutdown writes in its loop over the cancel
\* table only, which is one step when the table has one entry at most; the
\* polls that follow read the store: NextExec has that one step.
NextExec ==
    \/ Execute
    \/ \E j \in JobIds : Supervisor(j)
    \/ \E j \in JobIds : ProcExit(j)
    \/ \E j \in JobIds : ProcKill(j)
    \/ \E j \in JobIds : DeadlineExpire(j)
    \/ CancelJob
    \/ ShutdownFire

ExecSpec == OneSlot /\ [][NextExec]_vars

\* Scheduling: a goroutine that can run does run; a goroutine blocked on the
\* semaphore channel or on the mutex is queued behind the current holders,
\* so it gets its turn when the resource is free again and again; a child
\* process ends by itself or by the kill of its context.
Fairness ==
    /\ \A j \in JobIds :
        /\ SF_vars(Acquire(j) \/ Register(j) \/ Deregister(j))
        /\ WF_vars(SetRunning(j) \/ SpawnFails(j) \/ SpawnStarts(j) \/ Wait(j)
                     \/ Cause(j) \/ Finalize(j) \/ DeferredCancel(j) \/ Release(j))
        /\ WF_vars(ProcExit(j) \/ ProcKill(j))
        /\ WF_vars(ExecuteSave(j) /\ UNCHANGED apiVars)
    /\ WF_vars(CancelSteps)

\* the executors on which jobs can queue for a slot: fewer slots than jobs
FairInit == Init /\ maxConcurrent < MaxJobs

\* jobs are admitted and run, the first of them is cancelled, any number of
\* times; Shutdown is not called
FairNext ==
    \/ Execute
    \/ \E j \in JobIds : Supervisor(j)
    \/ \E j \in JobIds : ProcExit(j)
    \/ \E j \in JobIds : ProcKill(j)
    \/ \E j \in JobIds : DeadlineExpire(j)
    \/ CancelNotFound(1)
    \/ CancelBegin(1)
    \/ CancelSteps

FairSpec == FairInit /\ [][FairNext]_vars /\ Fairness

\* the runs with time stamps: the clock advances, one job is admitted and
\* Shutdown is not called
TimedNext ==
    \/ Tick
    \/ Execute /\ nextId' = 1
    \/ \E j \in JobIds : Supervisor(j)
    \/ \E j \in JobIds : ProcExit(j)
    \/ \E j \in JobIds : ProcKill(j)
    \/ \E j \in JobIds : DeadlineExpire(j)
    \/ CancelJob

TimedSpec == OneSlot /\ [][TimedNext]_vars

\* ------------------------------------------------- Shutdown's precondition
\* the executor under a caller that admits nothing once Shutdown has been
\* called, no job being cancelled by CancelJob
DrainNext ==
    \/ shutdownPc = "idle" /\ Execute
    \/ \E j \in JobIds : Supervisor(j)
    \/ \E j \in JobIds : ProcExit(j)
    \/ \E j \in JobIds : ProcKill(j)
    \/ \E j \in JobIds : DeadlineExpire(j)
    \/ Shutdown

DrainSpec == Init /\ [][DrainNext]_vars

\* the executor under any caller, no job being cancelled by CancelJob
PollNext ==
    \/ Execute
    \/ \E j \in JobIds : Supervisor(j)
    \/ \E j \in JobIds : ProcExit(j)
    \/ \E j \in JobIds : ProcKill(j)
    \/ \E j \in JobIds : DeadlineExpire(j)
    \/ Shutdown

PollSpec == Init /\ [][PollNext]_vars

\* ------------------------------------------------------ main and the API
\* main: <-quit returns on SIGINT or SIGTERM
Signal ==
    /\ server.pc = "serving"
    /\ server' = [server EXCEPT !.pc = "execShutdown"]
    /\ UNCHANGED <<execVars, postResp, authRet, storeRet, request>>

\* main: httpServer.Shutdown(ctx), once exec.Shutdown has returned: first the
\* listener is closed ...
MainHttpClose ==
    /\ server.pc = "execShutdown"
    /\ shutdownPc \in {"ok", "expired"}
    /\ server' = [server EXCEPT !.pc = "httpShutdown", !.accepting = FALSE]
    /\ UNCHANGED <<execVars, postResp, authRet, storeRet, request>>

\* ... then it returns nil once no request is being served; main returns
MainHttpIdle ==
    /\ server.pc = "httpShutdown"
    /\ server.inflight = "none"
    /\ cancelPc = "idle"
    /\ server' = [server EXCEPT !.pc = "stopped"]
    /\ UNCHANGED <<execVars, postResp, authRet, storeRet, request>>

\* ... or ctx.Err() once main's context, 30 s from the signal, is done
MainHttpExpired ==
    /\ server.pc = "httpShutdown"
    /\ server' = [server EXCEPT !.pc = "stopped"]
    /\ UNCHANGED <<execVars, postResp, authRet, storeRet, request>>

\* the requests that reach a handler of the executor
Methods == {"POST", "DELETE"}

\* the listener accepts a request; its handler is yet to run
HttpAccept(method) ==
    /\ server.accepting
    /\ server.inflight = "none"
    /\ server' = [server EXCEPT !.inflight = method]
    /\ UNCHANGED <<execVars, postResp, authRet, storeRet, request>>

\* executeCommand up to the return of s.executor.Execute, in the two steps of
\* Execute
PostCommand ==
    /\ server.pc # "stopped"
    /\ \/ /\ server.inflight = "POST"
          /\ ExecuteCall
          /\ server' = [server EXCEPT !.inflight = "Execute"]
       \/ /\ server.inflight = "Execute"
          /\ \E j \in JobIds : ExecuteSave(j)
          /\ server' = [server EXCEPT !.inflight = "none"]
    /\ UNCHANGED <<postResp, authRet, storeRet, request>>

\* executeCommand from there: c.JSON(200, ExecuteResponse{Status: job.Status}),
\* job being the pointer Execute returned
PostRespond(j) ==
    /\ pc[j] \notin {"idle", "save"}
    /\ postResp[j] = ""
    /\ postResp' = [postResp EXCEPT ![j] = job[j].status]
    /\ UNCHANGED <<execVars, server, authRet, storeRet, request>>

\* cancelCommand: s.executor.CancelJob(jobID) is called, and the steps of
\* CancelJob up to the response
DeleteCommand ==
    \/ /\ server.pc # "stopped"
       /\ server.inflight = "DELETE"
       /\ \E id \in JobIds : CancelNotFoundCall(id) \/ CancelBeginCall(id)
       /\ server' = [server EXCEPT !.inflight = "none"]
       /\ UNCHANGED <<postResp, authRet, storeRet, request>>
    \/ server.pc # "stopped" /\ CancelSteps

\* POST /api/v1/commands on a serving agent, the goroutines it starts and the
\* cancelling of the registered jobs by Shutdown
ApiNext ==
    \/ HttpAccept("POST")
    \/ PostCommand
    \/ \E j \in JobIds : PostRespond(j)
    \/ \E j \in JobIds : Supervisor(j)
    \/ \E j \in JobIds : ProcExit(j)
    \/ \E j \in JobIds : ProcKill(j)
    \/ \E j \in JobIds : DeadlineExpire(j)
    \/ ShutdownFire

\* POST and DELETE on a serving agent, the bodies of the responses left out
DeleteNext ==
    \/ \E method \in Methods : HttpAccept(method)
    \/ PostCommand
    \/ DeleteCommand
    \/ \E j \in JobIds : Supervisor(j)
    \/ \E j \in JobIds : ProcExit(j)
    \/ \E j \in JobIds : ProcKill(j)
    \/ \E j \in JobIds : DeadlineExpire(j)

\* the agent from start to stop, one command posted, the bodies of the
\* responses left out.  main calls exec.Shutdown(ctx), whose loop over the
\* cancel table is one step when the table has one entry at most, and then
\* httpServer.Shutdown(ctx)
MainNext ==
    \/ Signal
    \/ server.pc = "execShutdown" /\ (ShutdownFire \/ ShutdownPoll)
    \/ MainHttpClose
    \/ MainHttpIdle
    \/ MainHttpExpired
    \/ \E method \in Methods : HttpAccept(method)
    \/ PostCommand /\ nextId' = 1
    \/ DeleteCommand
    \/ \E j \in JobIds : Supervisor(j)
    \/ \E j \in JobIds : ProcExit(j)
    \/ \E j \in JobIds : ProcKill(j)
    \/ \E j \in JobIds : DeadlineExpire(j)

ApiSpec == OneSlot /\ [][ApiNext]_vars

DeleteSpec == OneSlot /\ [][DeleteNext]_vars

MainSpec == OneSlot /\ [][MainNext]_vars

\* --------------------------------------------------------- AuthMiddleware
\* Go strings are sequences of characters; a character outside ASCII is
\* written as its code point
\* server.apiKeys, from security.api_keys
ApiKeys == << <<"k">>, <<"k", "x">> >>

BearerPrefix == <<"B", "e", "a", "r", "e", "r", " ">>

\* strings.HasPrefix
HasPrefix(s, prefix) ==
    Len(s) >= Len(prefix) /\ SubSeq(s, 1, Len(prefix)) = prefix

\* strings.TrimPrefix
TrimPrefix(s, prefix) ==
    IF HasPrefix(s, prefix) THEN SubSeq(s, Len(prefix) + 1, Len(s)) ELSE s

\* unicode.IsSpace: the White_Space characters of Unicode
IsSpace(c) ==
    c \in {"\t", "\n", "U+000B", "\f", "\r", " ", "U+0085", "U+00A0", "U+1680",
           "U+2000", "U+2001", "U+2002", "U+2003", "U+2004", "U+2005", "U+2006",
           "U+2007", "U+2008", "U+2009", "U+200A", "U+2028", "U+2029", "U+202F",
           "U+205F", "U+3000"}

RECURSIVE TrimLeft(_)
TrimLeft(s) ==
    IF s # <<>> /\ IsSpace(Head(s)) THEN TrimLeft(Tail(s)) ELSE s

RECURSIVE TrimRight(_)
TrimRight(s) ==
    IF s # <<>> /\ IsSpace(s[Len(s)]) THEN TrimRight(SubSeq(s, 1, Len(s) - 1)) ELSE s

\* strings.TrimSpace
TrimSpace(s) == TrimRight(TrimLeft(s))

\* the key loop with a comparison that always succeeds
KeyMatchesAnything(token, apiKeys) == TRUE

\* for _, key := range apiKeys { if token == key
KeyMatches(token, apiKeys) == \E i \in 1..Len(apiKeys) : token = apiKeys[i]

\* c.JSON(401, ...); c.Abort()
Abort(error) == [next |-> FALSE, code |-> 401, error |-> error]

\* the function AuthMiddleware returns, applied to a request
AuthMiddleware(apiKeys, path, authHeader) ==
    IF path = "/health" THEN [next |-> TRUE, code |-> 0, error |-> ""]
    ELSE IF authHeader = <<>> THEN Abort("Authorization header required")
    ELSE IF ~HasPrefix(authHeader, BearerPrefix) THEN Abort("Bearer token required")
    ELSE LET token == TrimSpace(TrimPrefix(authHeader, BearerPrefix)) IN
         IF token = <<>> THEN Abort("Empty token")
         ELSE IF KeyMatches(token, apiKeys) THEN [next |-> TRUE, code |-> 0, error |-> ""]
         ELSE Abort("Invalid API key")

\* the requests sent: to the open route and to a protected one, without a
\* header, with every short token after "Bearer ", with a key under another
\* scheme, under a misspelt one and bare
Headers ==
    {<<>>}
    \cup {BearerPrefix \o t :
              t \in UNION {[1..m -> {"k", "x", " ", "U+00A0"}] : m \in 0..MaxTokenLen}}
    \cup {<<"B", "a", "s", "i", "c", " ">> \o ApiKeys[i] : i \in 1..Len(ApiKeys)}
    \cup {<<"b", "e", "a", "r", "e", "r", " ">> \o ApiKeys[i] : i \in 1..Len(ApiKeys)}
    \cup {<<"B", "e", "a", "r", "e", "r">> \o ApiKeys[i] : i \in 1..Len(ApiKeys)}
    \cup {ApiKeys[i] : i \in 1..Len(ApiKeys)}

\* SetupRoutes: /health is registered on the engine, the /api/v1 routes in the
\* group that runs AuthMiddleware first.  handler is the handler the request
\* reaches, admitted the number of jobs admitted before it.
Request(path, header) ==
    /\ server.accepting
    /\ server.inflight = "none"
    /\ server' = [server EXCEPT !.inflight =
                     IF path # "/health" /\ AuthMiddleware(ApiKeys, path, header).next
                     THEN "POST" ELSE "none"]
    /\ authRet' =
         IF path = "/health"
         THEN [op |-> "request", path |-> path, header |-> header, code |-> 200,
               handler |-> "healthHandler", admitted |-> nextId]
         ELSE LET a == AuthMiddleware(ApiKeys, path, header) IN
              [op |-> "request", path |-> path, header |-> header,
               code |-> IF a.next THEN 200 ELSE a.code,
               handler |-> IF a.next THEN "executeCommand" ELSE "none",
               admitted |-> nextId]
    /\ UNCHANGED <<execVars, postResp, storeRet, request>>

\* c.Next(): the handler of the request that passed runs, once
AuthorizedPost ==
    /\ authRet.op = "request"
    /\ authRet.handler = "executeCommand"
    /\ nextId' = authRet.admitted + 1
    /\ PostCommand

AuthNext ==
    \/ \E path \in {"/health", "/api/v1/commands"}, header \in Headers : Request(path, header)
    \/ AuthorizedPost

AuthSpec == Init /\ [][AuthNext]_vars

\* ------------------------------------------------- the store, used directly
AllStatuses == {StatusQueued, StatusRunning, StatusCompleted, StatusFailed,
                StatusCancelled}

\* the records handed to Save
SavedJobs ==
    {[ZeroJob EXCEPT !.status = s, !.createdAt = t] : s \in AllStatuses, t \in 0..MaxClock}

\* Memory.Get
Get(id) ==
    IF id \in jobs THEN [found |-> TRUE, job |-> Ptr(job[id])]
    ELSE [found |-> FALSE, job |-> Nil]

\* Memory.Count
Count == Cardinality(jobs)

\* the orders in which sync.Map.Range can visit the entries
RangeOrders == {o \in [1..Cardinality(jobs) -> jobs] :
                   \A a, b \in 1..Cardinality(jobs) : o[a] = o[b] => a = b}

\* the callback of Range in Memory.List, over the entries in the order visited
RECURSIVE ListFilter(_, _, _)
ListFilter(order, status, since) ==
    IF order = <<>> THEN <<>>
    ELSE LET j == Head(order)
             rest == ListFilter(Tail(order), status, since)
         IN IF status # "" /\ job[j].status # status THEN rest
            ELSE IF since # Nil /\ job[j].createdAt < since[1] THEN rest
            ELSE <<j>> \o rest

\* a < 0 for an int
Negative(v) == v[5] >= 8

\* a < b for two ints
Less(a, b) ==
    IF Negative(a) # Negative(b) THEN Negative(a)
    ELSE \E i \in 1..5 : a[i] < b[i] /\ \A k \in (i + 1)..5 : a[k] = b[k]

\* the int v as a number, for 0 <= v < 2^30
Value(v) == v[1] + Limb * v[2]

\* Memory.List counting the page it returns
ListCountsPage(order, status, limit, offset, since) ==
    LET allJobs == ListFilter(order, status, since)
        paged == IF ~NotPositive(offset) /\ Less(offset, Int64(Len(allJobs)))
                 THEN SubSeq(allJobs, Value(offset) + 1, Len(allJobs))
                 ELSE IF ~NotPositive(offset) THEN <<>> ELSE allJobs
        page == IF ~NotPositive(limit) /\ Less(limit, Int64(Len(paged)))
                THEN SubSeq(paged, 1, Value(limit))
                ELSE paged
    IN [items |-> page, total |-> Len(page)]

\* Memory.List; the items are the pointers the map holds
List(order, status, limit, offset, since) ==
    LET allJobs == ListFilter(order, status, since)
        totalCount == Len(allJobs)
    IN IF ~NotPositive(offset) /\ ~Less(offset, Int64(Len(allJobs)))
       THEN [items |-> <<>>, total |-> totalCount]
       ELSE LET paged == IF ~NotPositive(offset)
                         THEN SubSeq(allJobs, Value(offset) + 1, Len(allJobs))
                         ELSE allJobs
                page == IF ~NotPositive(limit) /\ Less(limit, Int64(Len(paged)))
                        THEN SubSeq(paged, 1, Value(limit))
                        ELSE paged
            IN [items |-> page, total |-> totalCount]

\* a caller of the store makes one call at a time and takes its result
StoreReturn ==
    /\ storeRet # NoCall
    /\ storeRet' = NoCall
    /\ UNCHANGED <<execVars, server, postResp, authRet, request>>

\* storage.Save(j) for a record j with j.ID = id
StoreSave(id, j) ==
    /\ storeRet = NoCall
    /\ job' = [job EXCEPT ![id] = j]
    /\ Save(id)
    /\ storeRet' = [op |-> "save", id |-> id, job |-> j, stored |-> id \in jobs,
                    count |-> Count]
    /\ UNCHANGED <<maxConcurrent, semaphore, cancelFuncs, nextId, pc, now, ctx, proc,
                   cancelPc, cancelId, cancelNow, cancelDur, cancelRet, shutdownPc, firing,
                   scan, clock, hist, server, postResp, authRet, request>>

\* storage.Delete(id): the entry goes, the record stays where it is
StoreDelete(id) ==
    /\ storeRet = NoCall
    /\ jobs' = jobs \ {id}
    /\ storeRet' = [op |-> "delete", id |-> id]
    /\ UNCHANGED <<maxConcurrent, semaphore, cancelFuncs, job, nextId, pc, now, ctx, proc,
                   cancelPc, cancelId, cancelNow, cancelDur, cancelRet, shutdownPc, firing,
                   scan, clock, hist, server, postResp, authRet, request>>

\* storage.List(status, limit, offset, since)
StoreList(status, limit, offset, since) ==
    /\ storeRet = NoCall
    /\ \E order \in RangeOrders :
         LET r == List(order, status, Int64(limit), Int64(offset), since) IN
         storeRet' = [op |-> "list", status |-> status, limit |-> Int64(limit),
                      offset |-> Int64(offset), since |-> since, order |-> order,
                      items |-> r.items, total |-> r.total]
    /\ UNCHANGED <<execVars, server, postResp, authRet, request>>

\* ------------------------------------------------- GET /api/v1/commands
DefaultLimit == 50
MaxLimit == 500

Digits == <<"0", "1", "2", "3", "4", "5", "6", "7", "8", "9">>

DigitValue(c) == (CHOOSE i \in 1..10 : Digits[i] = c) - 1

\* limbs i to 5 of v * m + carry, for a small m
RECURSIVE MulAdd(_, _, _, _)
MulAdd(v, i, m, carry) ==
    IF i > 5 THEN <<>>
    ELSE LET column == v[i] * m + carry
         IN <<column % Limb>> \o MulAdd(v, i + 1, m, column \div Limb)

\* the digits of strconv.Atoi, most significant first: n = n*10 + digit
RECURSIVE ParseDigits(_, _)
ParseDigits(s, acc) ==
    IF s = <<>> THEN acc
    ELSE ParseDigits(Tail(s),
                     [MulAdd(acc, 1, 10, DigitValue(Head(s))) EXCEPT ![5] = @ % 16])

\* -v for an int, in two's complement
Negate(v) ==
    LET complement == [i \in 1..5 |-> (IF i = 5 THEN 15 ELSE Limb - 1) - v[i]]
    IN [MulAdd(complement, 1, 1, 1) EXCEPT ![5] = @ % 16]

\* the largest and the smallest int, 1<<63 - 1 and -1<<63
MaxInt == <<32767, 32767, 32767, 32767, 7>>
MinInt == <<0, 0, 0, 0, 8>>

\* the digits of the largest int, 1<<63 - 1, and of the magnitude of the
\* smallest, 1<<63
MaxIntDigits == <<"9", "2", "2", "3", "3", "7", "2", "0", "3", "6", "8", "5", "4", "7",
                  "7", "5", "8", "0", "7">>
MinIntDigits == <<"9", "2", "2", "3", "3", "7", "2", "0", "3", "6", "8", "5", "4", "7",
                  "7", "5", "8", "0", "8">>

\* digits without their leading zeros
RECURSIVE StripZeros(_)
StripZeros(s) == IF s # <<>> /\ Head(s) = "0" THEN StripZeros(Tail(s)) ELSE s

\* of two digit strings of one length, the first is the larger number
RECURSIVE DigitsGreater(_, _)
DigitsGreater(a, b) ==
    IF a = <<>> THEN FALSE
    ELSE IF DigitValue(Head(a)) # DigitValue(Head(b))
    THEN DigitValue(Head(a)) > DigitValue(Head(b))
    ELSE DigitsGreater(Tail(a), Tail(b))

\* the digits of the largest uint64, 1<<64 - 1
MaxUintDigits == <<"1", "8", "4", "4", "6", "7", "4", "4", "0", "7", "3", "7", "0", "9",
                   "5", "5", "1", "6", "1", "5">>

\* the number written by the digits d is larger than the one written by bound
Exceeds(d, bound) ==
    LET n == StripZeros(d)
    IN Len(n) > Len(bound) \/ (Len(n) = Len(bound) /\ DigitsGreater(n, bound))

\* strconv.Atoi: an optional sign, then one digit or more, read from the left.
\* ParseUint returns ErrRange at the digit that takes the number past
\* 1<<64 - 1, whatever follows it, and ErrSyntax at a character that is not a
\* digit; ParseInt then returns ErrRange for a number outside the ints.  With
\* ErrSyntax the value is 0, with ErrRange the nearest int.
Atoi(s) ==
    LET signed == s # <<>> /\ Head(s) \in {"+", "-"}
        negative == signed /\ Head(s) = "-"
        digits == IF signed THEN Tail(s) ELSE s
        others == {i \in 1..Len(digits) : \A d \in 1..10 : Digits[d] # digits[i]}
        run == IF others = {} THEN digits
               ELSE SubSeq(digits, 1, (CHOOSE i \in others : \A k \in others : i <= k) - 1)
    IN IF digits = <<>>
       THEN [err |-> TRUE, value |-> Int64(0)]
       ELSE IF Exceeds(run, MaxUintDigits)
       THEN [err |-> TRUE, value |-> IF negative THEN MinInt ELSE MaxInt]
       ELSE IF others # {}
       THEN [err |-> TRUE, value |-> Int64(0)]
       ELSE IF Exceeds(digits, IF negative THEN MinIntDigits ELSE MaxIntDigits)
       THEN [err |-> TRUE, value |-> IF negative THEN MinInt ELSE MaxInt]
       ELSE [err |-> FALSE,
             value |-> IF negative THEN Negate(ParseDigits(digits, Int64(0)))
                       ELSE ParseDigits(digits, Int64(0))]

parseQueryParam(param, defaultValue, maxValue) ==
    LET a == Atoi(param) IN
    IF a.err \/ Negative(a.value) THEN defaultValue
    ELSE IF ~NotPositive(maxValue) /\ Less(maxValue, a.value) THEN maxValue
    ELSE a.value

\* c.DefaultQuery: the value of the key, the default when the key is absent
DefaultQuery(query, key, defaultValue) ==
    IF key \in DOMAIN query THEN query[key] ELSE defaultValue

\* the values tried for limit= and offset=
\* among them 1<<63, one more than the largest int, the largest int, and
\* digits past 1<<64 - 1 and past 1<<63 - 1 with a letter after them
LimitParams == {<<>>, <<"0">>, <<"1">>, <<"2">>, <<"-", "1">>, <<"x">>,
                <<"5", "0", "0">>, <<"5", "0", "1">>, MinIntDigits,
                MaxUintDigits \o <<"9", "x">>}
OffsetParams == {<<"0">>, <<"1">>, <<"-", "1">>, MinIntDigits, MaxIntDigits,
                 MinIntDigits \o <<"x">>}

\* the query strings: each of limit and offset absent or one of the values
Queries ==
    {[k \in {} |-> <<>>]}
    \cup {[k \in {"limit"} |-> l] : l \in LimitParams}
    \cup {[k \in {"offset"} |-> o] : o \in OffsetParams}
    \cup {[k \in {"limit", "offset"} |-> IF k = "limit" THEN lo[1] ELSE lo[2]] :
             lo \in LimitParams \X OffsetParams}

\* listCommands without status= and since=; the response holds copies of the
\* records
GetCommands(query) ==
    /\ storeRet = NoCall
    /\ LET limit == parseQueryParam(DefaultQuery(query, "limit", <<"5", "0">>),
                                    Int64(DefaultLimit), Int64(MaxLimit))
           offset == parseQueryParam(DefaultQuery(query, "offset", <<"0">>),
                                     Int64(0), Int64(-1))
       IN \E order \in RangeOrders :
            LET r == List(order, "", limit, offset, Nil) IN
            storeRet' = [op |-> "get", status |-> "", limit |-> limit,
                         offset |-> offset, since |-> Nil, order |-> order,
                         items |-> [i \in 1..Len(r.items) |-> job[r.items[i]]],
                         total |-> r.total]
    /\ UNCHANGED <<execVars, server, postResp, authRet, request>>

StoreNext ==
    \/ \E id \in JobIds, j \in SavedJobs : StoreSave(id, j)
    \/ \E id \in JobIds : StoreDelete(id)
    \/ \E status \in AllStatuses \cup {""}, limit \in 0..MaxQuery, offset \in 0..MaxQuery,
          since \in {Nil} \cup {Ptr(t) : t \in 0..MaxClock} :
            StoreList(status, limit, offset, since)
    \/ \E query \in Queries : GetCommands(query)
    \/ StoreReturn

StoreSpec == Init /\ [][StoreNext]_vars

\* ------------------------------------------------------- Memory.Cleanup
\* the Range callback of Cleanup deleting by age alone
CleanupScanAnyStatus(order, cutoff) ==
    SelectSeq(order, LAMBDA j : job[j].createdAt < cutoff)

\* the Range callback of Cleanup: toDelete, in the order visited
CleanupScan(order, cutoff) ==
    SelectSeq(order, LAMBDA j : /\ job[j].createdAt < cutoff
                                /\ \/ job[j].status = StatusCompleted
                                   \/ job[j].status = StatusFailed
                                   \/ job[j].status = StatusCancelled)

\* storage.Cleanup(maxAge) at time clock
StoreCleanup(maxAge) ==
    /\ storeRet = NoCall
    /\ LET cutoff == clock - maxAge IN
       \E order \in RangeOrders :
         LET toDelete == CleanupScan(order, cutoff) IN
         /\ jobs' = jobs \ {toDelete[i] : i \in 1..Len(toDelete)}
         /\ storeRet' = [op |-> "cleanup", cutoff |-> cutoff, before |-> jobs,
                         removed |-> Len(toDelete)]
    /\ UNCHANGED <<maxConcurrent, semaphore, cancelFuncs, job, nextId, pc, now, ctx, proc,
                   cancelPc, cancelId, cancelNow, cancelDur, cancelRet, shutdownPc, firing,
                   scan, clock, hist, server, postResp, authRet, request>>

\* a store that is filled, aged and cleaned
CleanupNext ==
    \/ \E id \in JobIds, j \in SavedJobs : StoreSave(id, j)
    \/ StoreReturn
    \/ Tick
    \/ \E maxAge \in 0..MaxClock : StoreCleanup(maxAge)

CleanupSpec == Init /\ [][CleanupNext]_vars

\* ------------------------------------------------ the requests of Execute
\* executeCommand: c.ShouldBindJSON(&req), the body of the next POST
BindRequest(req) ==
    /\ request' = req
    /\ UNCHANGED <<execVars, server, postResp, authRet, storeRet>>

\* jobs admitted with every request and run to the end, cancelled by their
\* deadlines or by Shutdown; CancelJob is not called.  Among the timeouts a
\* request can carry, <<32005, 19330, 8, 0, 0>> is 9223372037 s, the least
\* whose nanoseconds exceed an int64
AdmitNext ==
    \/ \E t \in {Int64(-1), Int64(0), Int64(30), <<32005, 19330, 8, 0, 0>>},
          p \in {"", "high"} : BindRequest([timeout |-> t, priority |-> p])
    \/ Execute
    \/ \E j \in JobIds : Supervisor(j)
    \/ \E j \in JobIds : ProcExit(j)
    \/ \E j \in JobIds : ProcKill(j)
    \/ \E j \in JobIds : DeadlineExpire(j)
    \/ ShutdownFire

AdmitSpec == OneSlot /\ [][AdmitNext]_vars

\* --------------------------------------------- DELETE /api/v1/commands/:id
\* string(job.Status)
StatusText(s) ==
    CASE s = StatusQueued -> <<"q", "u", "e", "u", "e", "d">>
      [] s = StatusRunning -> <<"r", "u", "n", "n", "i", "n", "g">>
      [] s = StatusCompleted -> <<"c", "o", "m", "p", "l", "e", "t", "e", "d">>
      [] s = StatusFailed -> <<"f", "a", "i", "l", "e", "d">>
      [] s = StatusCancelled -> <<"c", "a", "n", "c", "e", "l", "l", "e", "d">>
      [] OTHER -> <<>>

\* err.Error() for an error of CancelJob; fmt.Errorf with %s
ErrorText(e) ==
    IF e.err = "job not found"
    THEN <<"j", "o", "b", " ", "n", "o", "t", " ", "f", "o", "u", "n", "d">>
    ELSE IF e.err = "job cannot be cancelled"
    THEN <<"j", "o", "b", " ", "c", "a", "n", "n", "o", "t", " ", "b", "e", " ",
           "c", "a", "n", "c", "e", "l", "l", "e", "d", " ", "(", "s", "t", "a", "t",
           "u", "s", ":", " ">> \o StatusText(e.status) \o <<")">>
    ELSE <<>>

\* strings.Contains that finds everything
ContainsAnything(s, substr) == TRUE

\* strings.Contains
Contains(s, substr) ==
    \E i \in 1..(Len(s) - Len(substr) + 1) : SubSeq(s, i, i + Len(substr) - 1) = substr

\* cancelCommand: the HTTP status for what s.executor.CancelJob(jobID) returns
CancelStatusCode(e) ==
    IF e.err # ""
    THEN IF Contains(ErrorText(e), <<"n", "o", "t", " ", "f", "o", "u", "n", "d">>) THEN 404
         ELSE 400
    ELSE 200

\* cancelCommand: the status of the response, for the CancelJob call that has
\* returned
DeleteStatusCode == CancelStatusCode(cancelRet)

\* ================================================================ claims

\* C1: in every reachable state at most max_concurrent jobs of the store
\* have status running.
AtMostMaxConcurrentRunning == CountByStatus(StatusRunning) <= maxConcurrent

\* a job waits for a slot while max_concurrent jobs are running
SlotsFullWitness ==
    /\ CountByStatus(StatusRunning) = maxConcurrent
    /\ \E j \in jobs : pc[j] = "acquire" /\ job[j].status = StatusQueued

\* C2: once a job's record has a terminal status, no step changes its status.
TerminalStatusIsFinal ==
    [][\A j \in JobIds :
          job[j].status \in Terminal => job'[j].status = job[j].status]_vars

\* C3: a job whose CancelJob succeeded before its supervisor had a slot keeps
\* status cancelled and no started_at, and no process is ever spawned for it.
CancelledWhileQueuedNeverRuns ==
    \A j \in JobIds :
        hist[j].cancelQueued =>
            /\ job[j].status = StatusCancelled
            /\ job[j].startedAt = Nil
            /\ proc[j] = "none"

\* C4: under fair scheduling every admitted job eventually has a terminal
\* status.
EveryJobTerminates ==
    \A j \in JobIds : (pc[j] # "idle") ~> (job[j].status \in Terminal)

\* more jobs than slots were admitted and all of them have finished
AllFinishedWitness ==
    /\ nextId > maxConcurrent
    /\ \A j \in 1..nextId : pc[j] = "done" /\ job[j].status \in Terminal
    /\ \E j \in 1..nextId : job[j].status = StatusCompleted

\* the positions of a CancelJob call that has passed its tests
PassedTests == {"fire", "now", "status", "completedAt", "since", "duration", "save"}

\* C5: once a CancelJob(id) has returned success, a CancelJob(id) call fails
\* with the invalid-state error: none passes the tests.
DoubleCancelFails ==
    \A j \in JobIds :
        hist[j].cancelOK => ~(cancelId = j /\ cancelPc \in PassedTests)

\* C6: a CancelJob call for a job whose status is completed, failed or
\* cancelled when the call begins does not pass the tests of CancelJob and
\* returns the invalid-state error, naming a terminal status; no step of the
\* call fires a cancel handle or changes a record, the store or the cancel
\* table; and once a call for the job has returned the invalid-state error
\* naming a terminal status, every call for it that returns, returns that
\* same error.
CancelOfTerminalFails ==
    /\ [](\A j \in JobIds : (cancelId = j /\ hist[j].onTerminal) =>
             /\ cancelPc \notin PassedTests
             /\ cancelPc = "returned" =>
                  /\ cancelRet.err = "job cannot be cancelled"
                  /\ cancelRet.status \in Terminal)
    /\ \A j \in JobIds, s \in Terminal :
         []((cancelId = j /\ cancelPc = "returned"
               /\ cancelRet = [err |-> "job cannot be cancelled", status |-> s])
            => []((cancelId = j /\ cancelPc = "returned") =>
                    cancelRet = [err |-> "job cannot be cancelled", status |-> s]))
    /\ [][(cancelPc # "idle" /\ cancelPc' # cancelPc /\ hist[cancelId].onTerminal) =>
            UNCHANGED <<job, jobs, cancelFuncs, ctx>>]_vars

\* a CancelJob call for j has passed its tests
CancelIssued(j) == hist[j].cancelOK \/ (cancelPc \in PassedTests /\ cancelId = j)

\* the positions of a supervisor whose runCommand has returned
AfterRunCommand ==
    {"readCompleted", "setCompletedAt", "setDuration", "exit", "cancel", "release", "done"}

\* C7: a job whose deadline expired while its child was running, and for which
\* no cancel was issued, ends with status failed and error "command timed out".
TimeoutIsFailed ==
    \A j \in JobIds :
        (hist[j].dlRun /\ ~CancelIssued(j) /\ pc[j] \in AfterRunCommand) =>
            /\ job[j].status = StatusFailed
            /\ job[j].error = ErrTimedOut
            /\ proc[j] # "running"

\* the deadline killed a running child and the supervisor has finished
TimeoutWitness ==
    \E j \in JobIds :
        /\ hist[j].dlRun /\ ~CancelIssued(j)
        /\ proc[j] = "killed"
        /\ pc[j] = "done"
        /\ job[j].completedAt # Nil

\* C8: error "command timed out" goes with status failed only, and error
\* "command cancelled" with status cancelled only.
TimeoutAndCancelDistinct ==
    \A j \in jobs :
        /\ job[j].error = ErrTimedOut => job[j].status = StatusFailed
        /\ job[j].error = ErrCancelled => job[j].status = StatusCancelled

\* C9: after a successful CancelJob, a record with status cancelled has error
\* "command cancelled".
CancelledHasCancelError ==
    \A j \in jobs :
        (hist[j].cancelOK /\ job[j].status = StatusCancelled) =>
            job[j].error = ErrCancelled

\* C10: a record with exit_code 0 has status completed.
ExitZeroIsCompleted ==
    \A j \in jobs : job[j].exitCode = Ptr(0) => job[j].status = StatusCompleted

\* C11: every record the store holds has completed_at set exactly when its
\* status is completed, failed or cancelled, and started_at set exactly when
\* its status has at some point been running
TimestampsMatchStatus ==
    \A j \in jobs :
        /\ (job[j].completedAt # Nil) <=> (job[j].status \in Terminal)
        /\ (job[j].startedAt # Nil) <=> hist[j].ran

\* C13: the record a reader gets for an id changes only in a step that saves
\* that id (Execute, the supervisor's two saves, CancelJob's save)
RecordChangesOnlyOnSave ==
    [][\A j \in jobs :
          job'[j] # job[j] =>
              \/ pc[j] = "setStartedAt" /\ pc'[j] = "spawn"
              \/ pc[j] = "setDuration" /\ pc'[j] = "exit"
              \/ cancelPc = "save" /\ cancelId = j /\ cancelPc' = "returned"]_vars

\* C12: with a clock that never goes back, every record the store holds has
\* created_at <= started_at when started_at is set, and started_at <=
\* completed_at when both are set
TimestampsOrdered ==
    \A j \in jobs :
        /\ job[j].startedAt # Nil => job[j].createdAt <= job[j].startedAt[1]
        /\ (job[j].startedAt # Nil /\ job[j].completedAt # Nil) =>
               job[j].startedAt[1] <= job[j].completedAt[1]

\* C14: the response of POST /api/v1/commands carries status queued for the
\* job it admitted, however the job's supervisor is interleaved with the
\* handler
PostRespondsQueued ==
    \A j \in JobIds : postResp[j] # "" => postResp[j] = StatusQueued

\* C15: when no job is admitted after Shutdown has been called and Shutdown
\* has returned success, no job in the store has status running, then or later
ShutdownOkMeansDrained ==
    shutdownPc = "ok" => CountByStatus(StatusRunning) = 0

\* C16: in main's shutdown sequence the HTTP server has stopped accepting
\* requests by the time the executor's Shutdown is called
ListenerClosedBeforeShutdown ==
    shutdownPc # "idle" => ~server.accepting

\* s holds white space only
AllSpace(s) == \A i \in 1..Len(s) : IsSpace(s[i])

\* the header is "Bearer ", then a configured key with white space around it
ValidBearer(header) ==
    \E i \in 1..Len(ApiKeys) : \E a, b \in 0..Len(header) :
        /\ Len(header) = Len(BearerPrefix) + a + Len(ApiKeys[i]) + b
        /\ SubSeq(header, 1, Len(BearerPrefix)) = BearerPrefix
        /\ AllSpace(SubSeq(header, Len(BearerPrefix) + 1, Len(BearerPrefix) + a))
        /\ SubSeq(header, Len(BearerPrefix) + a + 1, Len(header) - b) = ApiKeys[i]
        /\ AllSpace(SubSeq(header, Len(header) - b + 1, Len(header)))

\* C17: a request to /api/v1 reaches its handler, and the executor changes,
\* only if its Authorization header is "Bearer <token>" with the trimmed
\* token a configured key; every other header gets 401 and no handler;
\* /health is answered 200 whatever the header
OnlyAuthorizedReachHandlers ==
    /\ [](authRet.op = "request" =>
            IF authRet.path = "/health"
            THEN authRet.code = 200 /\ authRet.handler = "healthHandler"
            ELSE \/ ValidBearer(authRet.header)
                 \/ authRet.code = 401 /\ authRet.handler = "none")
    /\ [][execVars' # execVars =>
            /\ authRet.op = "request"
            /\ authRet.path # "/health"
            /\ ValidBearer(authRet.header)]_vars

\* a key padded with a space and a no-break space passed and the handler
\* admitted a job
AuthorizedWitness ==
    /\ authRet.op = "request"
    /\ authRet.header = BearerPrefix \o <<" ", "k", "U+00A0">>
    /\ authRet.handler = "executeCommand"
    /\ nextId = authRet.admitted + 1

\* the job stored under j passes the filters of a list call
Matches(j, status, since) ==
    /\ status = "" \/ job[j].status = status
    /\ since = Nil \/ job[j].createdAt >= since[1]

\* C18: the total a list call returns is the number of stored jobs that match
\* its status filter and are not older than its since, whatever its limit and
\* offset
ListTotalCountsMatches ==
    storeRet.op \in {"list", "get"} =>
        storeRet.total =
            Cardinality({j \in jobs : Matches(j, storeRet.status, storeRet.since)})

\* both filters given, one of two jobs filtered out, the page empty
ListTotalWitness ==
    /\ storeRet.op = "list"
    /\ storeRet.status # ""
    /\ storeRet.since # Nil
    /\ Count = 2
    /\ storeRet.total = 1
    /\ storeRet.items = <<>>

\* C19: a list call returns at most limit items, namely the filtered jobs
\* after the first offset of them; the limit GET /api/v1/commands passes on is
\* at most 500 and so is the number of commands in its response
ListPageWithinLimit ==
    storeRet.op \in {"list", "get"} =>
        LET f == ListFilter(storeRet.order, storeRet.status, storeRet.since)
            skipped == IF Less(storeRet.offset, Int64(Len(f)))
                       THEN Value(storeRet.offset) ELSE Len(f)
            rest == SubSeq(f, skipped + 1, Len(f))
            page == IF Less(storeRet.limit, Int64(Len(rest)))
                    THEN SubSeq(rest, 1, Value(storeRet.limit)) ELSE rest
        IN /\ ~Less(storeRet.limit, Int64(Len(storeRet.items)))
           /\ storeRet.op = "list" => storeRet.items = page
           /\ storeRet.op = "get" =>
                  /\ ~Less(Int64(MaxLimit), storeRet.limit)
                  /\ Len(storeRet.items) <= MaxLimit

\* C20: after save(j), get(j.id) finds j; a save of an id already stored
\* leaves count() as it was; get of an id that was deleted, or never saved,
\* finds nothing
SaveGetRoundTrip ==
    /\ storeRet.op = "save" =>
           /\ Get(storeRet.id) = [found |-> TRUE, job |-> Ptr(storeRet.job)]
           /\ storeRet.stored => Count = storeRet.count
    /\ storeRet.op = "delete" => ~Get(storeRet.id).found
    /\ \A id \in JobIds : job[id] = ZeroJob => ~Get(id).found

\* a save has replaced the record of a stored id, next to another job
SaveReplacedWitness ==
    /\ storeRet.op = "save"
    /\ storeRet.stored
    /\ Count = 2

\* the jobs of a set that are terminal and were created before cutoff
Expired(set, cutoff) ==
    {j \in set : job[j].status \in Terminal /\ job[j].createdAt < cutoff}

\* C21: cleanup(max_age) removes exactly the terminal jobs created before
\* now - max_age and returns their number; queued and running jobs stay
\* whatever their age; with no such terminal job it removes nothing, returns 0
CleanupRemovesExpiredTerminal ==
    storeRet.op = "cleanup" =>
        LET old == Expired(storeRet.before, storeRet.cutoff) IN
        /\ jobs = storeRet.before \ old
        /\ storeRet.removed = Cardinality(old)
        /\ \A j \in storeRet.before :
               job[j].status \in {StatusQueued, StatusRunning} => j \in jobs
        /\ old = {} => storeRet.removed = 0 /\ jobs = storeRet.before

\* a cleanup removed an old terminal job and kept a running job as old
CleanupWitness ==
    /\ storeRet.op = "cleanup"
    /\ storeRet.removed = 1
    /\ \E j \in jobs : job[j].status = StatusRunning /\ job[j].createdAt < storeRet.cutoff

\* job j is admitted in this step
Admitted(j) == pc[j] = "idle" /\ pc'[j] # "idle"

\* C22: Execute stores timeout 1800 for a request with timeout 0 and priority
\* "normal" for one with an empty priority, any other timeout or priority as
\* requested; the values never change once the record is made, and the job's
\* context is made with the duration computed from the stored timeout
ExecuteStoresDefaults ==
    /\ [][\A j \in JobIds :
            /\ Admitted(j) =>
                 /\ job'[j].timeout =
                      IF request.timeout = Int64(0) THEN Int64(1800) ELSE request.timeout
                 /\ job'[j].priority =
                      IF request.priority = "" THEN "normal" ELSE request.priority
            /\ pc[j] # "idle" =>
                 /\ job'[j].timeout = job[j].timeout
                 /\ job'[j].priority = job[j].priority]_vars
    /\ [](\A j \in jobs :
            hist[j].deadline # Nil =>
                hist[j].deadline = Ptr(Duration(job[j].timeout)))

\* a job admitted without timeout and priority and one admitted with both
\* have their contexts
DefaultsWitness ==
    /\ jobs = {1, 2}
    /\ job[1].timeout = Int64(1800) /\ job[1].priority = "normal"
    /\ job[2].timeout = Int64(30) /\ job[2].priority = "high"
    /\ hist[1].deadline = Ptr(Duration(Int64(1800)))
    /\ hist[2].deadline = Ptr(Duration(Int64(30)))

\* C30: whatever timeout the request carries, negative ones included, the
\* timeout stored on the job and the duration its context is made with are
\* greater than 0
StoredTimeoutPositive ==
    \A j \in jobs :
        /\ ~NotPositive(job[j].timeout)
        /\ hist[j].deadline # Nil => ~NotPositive(hist[j].deadline[1])

\* C23: DELETE /api/v1/commands/:id answers 404 exactly when the id is not in
\* the store as CancelJob looks it up, 400 when the job is stored and CancelJob
\* has read a status other than queued and running, the status having neither
\* value at its second reading, and 200 when CancelJob has read queued or
\* running, the status having that value at that reading, and the cancel has
\* gone ahead
DeleteAnswersByState ==
    /\ [](cancelPc = "returned" =>
            /\ DeleteStatusCode = 404 <=> cancelRet.err = "job not found"
            /\ DeleteStatusCode = 400 <=> cancelRet.err = "job cannot be cancelled"
            /\ DeleteStatusCode = 200 <=> cancelRet.err = "")
    /\ [][(cancelPc = "idle" /\ cancelPc' # cancelPc) =>
            IF cancelId' \in jobs
            THEN cancelPc' = "test"
            ELSE cancelPc' = "returned" /\ cancelRet'.err = "job not found"]_vars
    /\ [][(cancelPc # "returned" /\ cancelPc' = "returned") =>
            \/ cancelPc = "idle" /\ cancelRet'.err = "job not found"
            \/ cancelPc = "error" /\ cancelRet'.err = "job cannot be cancelled"
            \/ cancelPc = "save" /\ cancelRet'.err = ""]_vars
    /\ [][(cancelPc # "error" /\ cancelPc' = "error") =>
            /\ cancelId \in jobs
            /\ job[cancelId].status \notin {StatusQueued, StatusRunning}]_vars
    /\ [][(cancelPc # "fire" /\ cancelPc' = "fire") =>
            /\ cancelId \in jobs
            /\ job[cancelId].status \in {StatusQueued, StatusRunning}]_vars
    /\ [](cancelPc \in PassedTests \cup {"test", "test2", "error"} => cancelId \in jobs)

\* the CancelJob call of a DELETE for a job that has failed has returned
DeleteWitness ==
    /\ cancelPc = "returned"
    /\ DeleteStatusCode = 400
    /\ job[cancelId].status = StatusFailed
    /\ pc[cancelId] = "done"

\* C24: a job whose process was spawned had status running, with started_at,
\* saved before the spawn, and no stored job goes from queued straight to
\* completed
NoStatusSkipped ==
    /\ [](\A j \in JobIds :
            proc[j] # "none" => j \in jobs /\ hist[j].ran /\ job[j].startedAt # Nil)
    /\ [][\A j \in jobs :
            ~(job[j].status = StatusQueued /\ job'[j].status = StatusCompleted)]_vars

\* a job has run its process to a clean exit and is completed
RanToCompletionWitness ==
    \E j \in jobs :
        /\ proc[j] = "exit0"
        /\ pc[j] = "done"
        /\ job[j].status = StatusCompleted

\* C25: at the supervisor's cause check a context that is cancelled or past
\* its deadline when the check begins wins over the result of cmd.Wait: past
\* its deadline, the check writes failed; cancelled, it stays cancelled and
\* the check goes on to its second test and writes cancelled there; and only
\* the branch on cmd.Wait ever writes completed
CauseCheckWins ==
    /\ [][\A j \in JobIds :
            (pc[j] = "cause" /\ pc'[j] # pc[j] /\ CtxDone(ctx[j])) =>
                IF ctx[j] = "deadline"
                THEN pc'[j] = "timedOutError" /\ job'[j].status = StatusFailed
                ELSE pc'[j] = "cause2"]_vars
    /\ [][\A j \in JobIds :
            (pc[j] = "cause2" /\ pc'[j] # pc[j] /\ ctx[j] = "canceled") =>
                pc'[j] = "cancelledError" /\ job'[j].status = StatusCancelled]_vars
    /\ [][\A j \in JobIds : ctx[j] = "canceled" => ctx'[j] = "canceled"]_vars
    /\ [][\A j \in JobIds :
            (job'[j].status = StatusCompleted /\ job[j].status # StatusCompleted) =>
                pc[j] = "wait" /\ pc'[j] = "waitExitCode"]_vars

\* the child exited with success, the context was cancelled at the cause check
\* and the record is cancelled
SuccessInRaceWindowWitness ==
    \E j \in jobs :
        /\ pc[j] = "readCompleted"
        /\ proc[j] = "exit0"
        /\ job[j].exitCode = Ptr(0)
        /\ ctx[j] = "canceled"
        /\ job[j].status = StatusCancelled
        /\ job[j].error = ErrCancelled

\* the supervisors that hold a slot: past the send on the semaphore, before
\* the deferred receive
HoldingSlot == {j \in JobIds : pc[j] \notin {"idle", "save", "acquire", "done"}}

\* C26: the number of slots held equals the number of supervisors between
\* the acquisition of their slot and their exit, on every path, and is 0 once
\* every admitted job has finished
SlotsMatchSupervisors ==
    /\ semaphore = Cardinality(HoldingSlot)
    /\ (\A j \in jobs : pc[j] = "done") => semaphore = 0

\* two jobs have finished on different paths, a failed start and a timeout
SlotsReleasedWitness ==
    /\ \E j \in jobs : pc[j] = "done" /\ job[j].error = ErrStart
    /\ \E j \in jobs : pc[j] = "done" /\ job[j].error = ErrTimedOut
    /\ semaphore = 0

\* C27: Shutdown fires the cancel handle of every job registered when it
\* holds the mutex; each poll visits entries of the store once each and counts
\* those it reads as running; Shutdown returns success only from a poll that
\* has visited every entry it began with and counted none, and the deadline
\* error only from the wait that follows a poll that counted one
ShutdownFiresAndPolls ==
    /\ [][(shutdownPc \in {"idle", "fire"} /\ shutdownPc' \notin {"idle", "fire"}) =>
            /\ shutdownPc' = "count"
            /\ \A j \in cancelFuncs : CtxDone(ctx'[j])]_vars
    /\ [][shutdownPc = "fire" => cancelFuncs' = cancelFuncs]_vars
    /\ [][(shutdownPc = "count" /\ shutdownPc' # "count") =>
            shutdownPc' = "scan" /\ scan' = [todo |-> jobs, seen |-> {}, count |-> 0]]_vars
    /\ [][(shutdownPc = "scan" /\ shutdownPc' = "scan" /\ scan' # scan) =>
            \E j \in jobs \ scan.seen :
                /\ scan'.seen = scan.seen \cup {j}
                /\ scan'.todo = scan.todo
                /\ scan'.count = scan.count +
                                    (IF job[j].status = StatusRunning THEN 1 ELSE 0)]_vars
    /\ [][(shutdownPc # "ok" /\ shutdownPc' = "ok") =>
            shutdownPc = "scan" /\ scan.todo \subseteq scan.seen /\ scan.count = 0]_vars
    /\ [][(shutdownPc # "wait" /\ shutdownPc' = "wait") =>
            shutdownPc = "scan" /\ scan.todo \subseteq scan.seen /\ scan.count > 0]_vars
    /\ [][(shutdownPc # "expired" /\ shutdownPc' = "expired") =>
            shutdownPc = "wait"]_vars

\* Shutdown has cancelled a running job, which ended cancelled, and returned
\* success
ShutdownCancelledWitness ==
    /\ shutdownPc = "ok"
    /\ \E j \in jobs :
        /\ ~CancelIssued(j)
        /\ ctx[j] = "canceled"
        /\ proc[j] = "killed"
        /\ job[j].status = StatusCancelled

\* C28: a job whose pipe creation or process start failed ends with status
\* failed, exit code -1, an error text and completed_at, its cancel-table
\* entry removed and its slot released
SpawnFailureIsFailed ==
    \A j \in jobs :
        (pc[j] = "done" /\ job[j].error = ErrStart) =>
            /\ job[j].status = StatusFailed
            /\ job[j].exitCode = Ptr(-1)
            /\ job[j].completedAt # Nil
            /\ j \notin cancelFuncs
            /\ semaphore = Cardinality(HoldingSlot)

\* C29: the steps of a CancelJob call that passes its tests (a step of the
\* call is a step that moves cancelPc) change, of the job records, only
\* status, completed_at and duration_ms of the job cancelled, remove at most
\* that job's cancel-table entry, and leave the store's id set and every
\* other record as they were
CancelJobFrame ==
    [][cancelPc' # cancelPc =>
         LET id == IF cancelPc = "idle" THEN cancelId' ELSE cancelId IN
         /\ \A j \in JobIds \ {id} : job'[j] = job[j]
         /\ job'[id].timeout = job[id].timeout
         /\ job'[id].priority = job[id].priority
         /\ job'[id].createdAt = job[id].createdAt
         /\ job'[id].startedAt = job[id].startedAt
         /\ job'[id].exitCode = job[id].exitCode
         /\ job'[id].error = job[id].error
         /\ cancelFuncs \ {id} \subseteq cancelFuncs'
         /\ cancelFuncs' \subseteq cancelFuncs
         /\ jobs' = jobs]_vars

\* a running job was cancelled by CancelJob and another job is running
CancelFrameWitness ==
    \E j, k \in jobs :
        /\ j # k
        /\ hist[j].cancelOK
        /\ job[j].status = StatusCancelled
        /\ job[j].startedAt # Nil
        /\ job[j].error = ""
        /\ job[k].status = StatusRunning

\* C31: the cancel table holds an entry for a job only while that job's
\* supervisor holds a slot: it never has more than maxConcurrent entries, a
\* job whose supervisor has exited has no entry, the table is empty once
\* every supervisor has exited, and CancelJob removes an entry only in the
\* step that leaves its context fired
CancelTableWithinSlots ==
    /\ [](/\ cancelFuncs \subseteq HoldingSlot
          /\ Cardinality(cancelFuncs) <= maxConcurrent
          /\ \A j \in jobs : pc[j] = "done" => j \notin cancelFuncs
          /\ (\A j \in jobs : pc[j] = "done") => cancelFuncs = {})
    /\ [][(cancelPc = "fire" /\ cancelFuncs' # cancelFuncs) =>
            /\ cancelFuncs' = cancelFuncs \ {cancelId}
            /\ CtxDone(ctx'[cancelId])]_vars

\* CancelJob has fired and removed the entry of a job whose supervisor still
\* holds its slot, while another job waits for the slot
CancelEntryRemovedWitness ==
    \E j, k \in jobs :
        /\ j # k
        /\ cancelPc = "now"
        /\ cancelId = j
        /\ shutdownPc = "idle"
        /\ j \in HoldingSlot
        /\ pc[j] # "register"
        /\ j \notin cancelFuncs
        /\ ctx[j] = "canceled"
        /\ pc[k] = "acquire"

====
